---- MODULE Spec2Model ----
(***************************************************************************)
(* A model of the `environment` crate: the value-inference cascade         *)
(* (Value::new / Value::split and the detectors parse_int, parse_float,    *)
(* parse_bool, parse_socket, parse_ip) and the Envir snapshot built from   *)
(* the process environment.                                                *)
(*                                                                         *)
(* Text is a sequence of one-character strings: "0x1" is <<"0","x","1">>.  *)
(* Option<T> is a sequence of length at most one: None is <<>> and         *)
(* Some(x) is <<x>>.                                                       *)
(***************************************************************************)
EXTENDS Integers, Sequences, FiniteSets, TLC

VARIABLES
    pc,       \* position of the single-value run: "start", "built", "read", "again"
    input,    \* the String handed to Value::new
    val,      \* Option<Value>: what Value::new(input) returned
    text,     \* Option<&str>: what val.as_str() returned
    again,    \* Option<Value>: what Value::new(text) returned
    environ,  \* the process environment: key -> Option<String>
    envir,    \* Option<Envir>: the snapshot's HashMap<String, Value>
    built,    \* the environment as it was when Envir::default() read it
    handles,  \* number of live clones of the Envir (Arc strong count)
    reads     \* Option: the latest lookup (reader, handle, operation, name) and its answer

vars == <<pc, input, val, text, again, environ, envir, built, handles, reads>>

None == <<>>

Some(x) == <<x>>

(***************************************************************************)
(* Characters.                                                             *)
(***************************************************************************)
DecDigits == {"0", "1", "2", "3", "4", "5", "6", "7", "8", "9"}

HexDigits == DecDigits \cup {"a", "b", "c", "d", "e", "f", "A", "B", "C", "D", "E", "F"}

OctDigits == {"0", "1", "2", "3", "4", "5", "6", "7"}

BinDigits == {"0", "1"}

\* char::to_digit for radix <= 16: the digit's value (an index into 0-9a-f).
DigitValue(c) ==
    CASE c = "0" -> 0 [] c = "1" -> 1 [] c = "2" -> 2 [] c = "3" -> 3
      [] c = "4" -> 4 [] c = "5" -> 5 [] c = "6" -> 6 [] c = "7" -> 7
      [] c = "8" -> 8 [] c = "9" -> 9
      [] c \in {"a", "A"} -> 10 [] c \in {"b", "B"} -> 11
      [] c \in {"c", "C"} -> 12 [] c \in {"d", "D"} -> 13
      [] c \in {"e", "E"} -> 14 [] c \in {"f", "F"} -> 15
      [] OTHER -> 16

to_digit(c, radix) == IF DigitValue(c) < radix THEN Some(DigitValue(c)) ELSE None

AllIn(s, from, to, set) == \A i \in from..to : s[i] \in set

(***************************************************************************)
(* Integers.  A natural number is its little-endian sequence of 16-bit     *)
(* limbs without high zero limbs (zero is <<>>), so that a 64-bit quantity *)
(* is exactly a sequence of at most four limbs.  An i64 is a sign and a    *)
(* magnitude; zero has no sign.                                            *)
(***************************************************************************)
LimbBase == 256 * 256

RECURSIVE LimbMulAdd(_, _, _)
\* m * k + c, for a small multiplier k and a small addend c.
LimbMulAdd(m, k, c) ==
    IF m = <<>>
    THEN IF c = 0 THEN <<>> ELSE <<c>>
    ELSE LET p == Head(m) * k + c
             rest == LimbMulAdd(Tail(m), k, p \div LimbBase)
         IN IF rest = <<>> /\ p % LimbBase = 0 THEN <<>> ELSE <<p % LimbBase>> \o rest

\* i64::MAX = 2^63 - 1 bounds a non-negative value: the top limb stays below 2^15.
FitsPositive(m) == Len(m) < 4 \/ (Len(m) = 4 /\ m[4] < 32768)

\* i64::MIN = -2^63 bounds a negative value's magnitude.
FitsNegative(m) == FitsPositive(m) \/ m = <<0, 0, 0, 32768>>

FitsI64(neg, m) == IF neg THEN FitsNegative(m) ELSE FitsPositive(m)

\* A digit step that multiplies and adds without looking for overflow.
unchecked_step(neg, m, radix, x) == Some(LimbMulAdd(LimbMulAdd(m, radix, 0), 1, x))

\* i64::checked_mul(radix) then checked_add(x) (checked_sub for a negative
\* literal): None as soon as an intermediate result leaves the i64 range.
checked_step(neg, m, radix, x) ==
    LET mul == LimbMulAdd(m, radix, 0)
        sum == LimbMulAdd(mul, 1, x)
    IN IF ~FitsI64(neg, mul) THEN None
       ELSE IF ~FitsI64(neg, sum) THEN None
       ELSE Some(sum)

\* One turn of the digit loop of from_str_radix, at digits[i]: acc is the
\* result so far, None once a digit or a checked operation has failed.
digit_step(digits, i, radix, neg, acc) ==
    IF acc = None \/ i > Len(digits) THEN acc
    ELSE IF to_digit(digits[i], radix) = None THEN None
    ELSE checked_step(neg, acc[1], radix, to_digit(digits[i], radix)[1])

RECURSIVE accumulate(_, _, _, _, _)
\* The digit loop of from_str_radix over digits[i..], from the result so far,
\* four turns at a time.
accumulate(digits, i, radix, neg, m) ==
    IF i > Len(digits) THEN Some([neg |-> neg /\ m # <<>>, mag |-> m])
    ELSE LET next == digit_step(digits, i + 3, radix, neg,
                         digit_step(digits, i + 2, radix, neg,
                             digit_step(digits, i + 1, radix, neg,
                                 digit_step(digits, i, radix, neg, Some(m)))))
         IN IF next = None THEN None
            ELSE accumulate(digits, i + 4, radix, neg, next[1])

\* i64::from_str_radix: an optional sign, at least one digit, checked arithmetic.
from_str_radix(src, radix) ==
    IF src = <<>> THEN None
    ELSE IF Len(src) = 1 /\ src[1] \in {"+", "-"} THEN None
    ELSE IF src[1] = "+" THEN accumulate(Tail(src), 1, radix, FALSE, <<>>)
    ELSE IF src[1] = "-" THEN accumulate(Tail(src), 1, radix, TRUE, <<>>)
    ELSE accumulate(src, 1, radix, FALSE, <<>>)

\* DEC = ^([-|+]?[0-9]{1,19})$ ; group 1 is the whole text.
DEC(s) ==
    IF \E k \in {0, 1} :
           /\ Len(s) - k \in 1..19
           /\ k = 1 => s[1] \in {"-", "|", "+"}
           /\ AllIn(s, k + 1, Len(s), DecDigits)
    THEN Some(s) ELSE None

\* A prefixed pattern ^0<letter>([digits]{1,max})$ ; group 1 is the digit run.
Prefixed(s, letter, digits, max) ==
    IF /\ Len(s) - 2 \in 1..max
       /\ s[1] = "0"
       /\ s[2] = letter
       /\ AllIn(s, 3, Len(s), digits)
    THEN Some(SubSeq(s, 3, Len(s))) ELSE None

\* HEX = ^0x([A-Fa-f0-9]{1,16})$
HEX(s) == Prefixed(s, "x", HexDigits, 16)

\* OCTAL = ^0o([0-7]{1,32})$
OCTAL(s) == Prefixed(s, "o", OctDigits, 32)

\* BOOL (of int.rs) = ^0b([01]{1,64})$
BINARY(s) == Prefixed(s, "b", BinDigits, 64)

\* captures(data) -> group 1 -> from_str_radix(group, base).ok()
boilerplate(captured, base) ==
    IF captured = None THEN None ELSE from_str_radix(captured[1], base)

parse_base_10(s) == boilerplate(DEC(s), 10)

parse_base_16(s) == boilerplate(HEX(s), 16)

parse_base_8(s) == boilerplate(OCTAL(s), 8)

parse_base_2(s) == boilerplate(BINARY(s), 2)

\* Iterator::chain of Options, then next(): the first Some in order.
First(options) ==
    IF \E i \in 1..Len(options) : options[i] # None
    THEN options[CHOOSE i \in 1..Len(options) :
                     options[i] # None /\ \A j \in 1..(i - 1) : options[j] = None]
    ELSE None

parse_int(s) ==
    First(<<parse_base_10(s), parse_base_16(s), parse_base_8(s), parse_base_2(s)>>)

(***************************************************************************)
(* Floats.  An f64 is modelled by the decimal value that f64::from_str     *)
(* rounds: its class, its sign, its significant digits without leading or  *)
(* trailing zeros and the power of ten of its last digit.  Values beyond   *)
(* the double range become infinite or zero as from_str makes them; the    *)
(* rounding of an in-range decimal to the nearest double is not modelled.  *)
(***************************************************************************)
Signs == {"+", "-"}

ExpMarks == {"e", "E"}

\* [0-9]{lo,hi} on s[from..to]
Digs(s, from, to, lo, hi) == (to - from + 1) \in lo..hi /\ AllIn(s, from, to, DecDigits)

\* (([0-9]{1,17})|([0-9]{1,17}.[0-9]{1,17})|([0-9]{0,17}.[0-9]{1,17})) on
\* s[from..to]; the pattern's "." is unescaped and matches any character.
FloatMantissa(s, from, to) ==
    \/ Digs(s, from, to, 1, 17)
    \/ \E d \in from..to : Digs(s, from, d - 1, 1, 17) /\ Digs(s, d + 1, to, 1, 17)
    \/ \E d \in from..to : Digs(s, from, d - 1, 0, 17) /\ Digs(s, d + 1, to, 1, 17)

\* [eE]?[+-]?[0-9]{0,17} on s[from..to]
FloatSuffix(s, from, to) ==
    \E e \in {0, 1}, g \in {0, 1} :
        /\ from + e + g <= to + 1
        /\ e = 1 => s[from] \in ExpMarks
        /\ g = 1 => s[from + e] \in Signs
        /\ Digs(s, from + e + g, to, 0, 17)

\* (inf|Nan|(mantissa suffix)) on s[from..]
FloatBody(s, from) ==
    \/ SubSeq(s, from, Len(s)) = <<"i", "n", "f">>
    \/ SubSeq(s, from, Len(s)) = <<"N", "a", "n">>
    \/ \E m \in from..Len(s) : FloatMantissa(s, from, m) /\ FloatSuffix(s, m + 1, Len(s))

\* FLOAT_STRING = ^([+-]?(inf|Nan|(...)))$ ; group 1 is the whole text.
FLOAT_NUM_DEC(s) ==
    IF \/ FloatBody(s, 1)
       \/ (s # <<>> /\ s[1] \in Signs /\ FloatBody(s, 2))
    THEN Some(s) ELSE None

\* u8::to_ascii_lowercase, on the letters of the words this crate reads.
Lower(c) ==
    CASE c = "I" -> "i" [] c = "N" -> "n" [] c = "F" -> "f" [] c = "A" -> "a"
      [] c = "T" -> "t" [] c = "Y" -> "y" [] c = "R" -> "r" [] c = "U" -> "u"
      [] c = "E" -> "e" [] c = "L" -> "l" [] c = "S" -> "s" [] c = "P" -> "p"
      [] c = "O" -> "o" [] OTHER -> c

LowerAll(s) == [i \in 1..Len(s) |-> Lower(s[i])]

\* The end of the run of decimal digits of s that starts at from (which is
\* at most Len(s) + 1).
DigitsEnd(s, from) ==
    CHOOSE end \in from..(Len(s) + 1) :
        /\ AllIn(s, from, end - 1, DecDigits)
        /\ end <= Len(s) => s[end] \notin DecDigits

\* The number of zeros d starts with.
LeadingZeros(d) ==
    CHOOSE n \in 0..Len(d) : AllIn(d, 1, n, {"0"}) /\ (n < Len(d) => d[n + 1] # "0")

\* The number of zeros d ends with.
TrailingZeros(d) ==
    CHOOSE n \in 0..Len(d) :
        AllIn(d, Len(d) - n + 1, Len(d), {"0"}) /\ (n < Len(d) => d[Len(d) - n] # "0")

\* parse_scientific's digit loop: the exponent saturates once it passes 0x10000.
RECURSIVE ExponentValue(_, _, _, _)
ExponentValue(s, from, to, acc) ==
    IF from > to THEN acc
    ELSE ExponentValue(s, from + 1, to,
                       IF acc < 65536 THEN 10 * acc + DigitValue(s[from]) ELSE acc)

\* The f64 of the decimal kept * 10^last, kept without leading or trailing zeros.
Rounded(neg, kept, last) ==
    IF kept = <<>> \/ last + Len(kept) - 1 < -324
    THEN [class |-> "zero", neg |-> neg, digits |-> <<>>, exp |-> 0]
    ELSE IF last + Len(kept) - 1 > 308
    THEN [class |-> "inf", neg |-> neg, digits |-> <<>>, exp |-> 0]
    ELSE [class |-> "finite", neg |-> neg, digits |-> kept, exp |-> last]

Stripped(neg, digits, exp10, lz, tz) ==
    IF lz = Len(digits) THEN Rounded(neg, <<>>, 0)
    ELSE Rounded(neg, SubSeq(digits, lz + 1, Len(digits) - tz), exp10 + tz)

\* The f64 of a decimal: sign, digits of integer and fraction part, exponent.
Decimal(neg, digits, exp10) ==
    Stripped(neg, digits, exp10, LeadingZeros(digits), TrailingZeros(digits))

\* parse_scientific on t[mark..]: the exponent mark, an optional sign and
\* digits up to x - 1, which must be there and end the text.
scientific(neg, t, int, frac, mark, g, x) ==
    IF x = g \/ x # Len(t) + 1 THEN None
    ELSE Some(Decimal(neg, int \o frac,
                      (IF t[g - 1] = "-" THEN 0 - ExponentValue(t, g, x - 1, 0)
                       ELSE ExponentValue(t, g, x - 1, 0)) - Len(frac)))

\* parse_number behind the mantissa, which ends before position f.
exponent(neg, t, int, frac, f) ==
    IF int = <<>> /\ frac = <<>> THEN None
    ELSE IF f = Len(t) + 1 THEN Some(Decimal(neg, int \o frac, 0 - Len(frac)))
    ELSE IF t[f] \notin ExpMarks THEN None
    ELSE IF f + 1 <= Len(t) /\ t[f + 1] \in Signs
    THEN scientific(neg, t, int, frac, f, f + 2, DigitsEnd(t, IF f + 2 <= Len(t) THEN f + 2 ELSE Len(t) + 1))
    ELSE scientific(neg, t, int, frac, f, f + 1, DigitsEnd(t, f + 1))

\* parse_number behind the integer part t[1..i-1]: an optional "." and digits.
fraction(neg, t, i) ==
    IF i <= Len(t) /\ t[i] = "."
    THEN exponent(neg, t, SubSeq(t, 1, i - 1),
                  SubSeq(t, i + 1, DigitsEnd(t, i + 1) - 1), DigitsEnd(t, i + 1))
    ELSE exponent(neg, t, SubSeq(t, 1, i - 1), <<>>, i)

\* parse_number on t (the text after its sign): digits, an optional "." and
\* digits, at least one digit in all, an optional exponent that must have
\* digits, and nothing left over.
parse_number(neg, t) == fraction(neg, t, DigitsEnd(t, 1))

\* parse_inf_nan: the special tokens, letters compared without case.
parse_inf_nan(neg, t) ==
    IF LowerAll(t) = <<"n", "a", "n">>
    THEN Some([class |-> "nan", neg |-> neg, digits |-> <<>>, exp |-> 0])
    ELSE IF LowerAll(t) \in {<<"i", "n", "f">>, <<"i", "n", "f", "i", "n", "i", "t", "y">>}
    THEN Some([class |-> "inf", neg |-> neg, digits |-> <<>>, exp |-> 0])
    ELSE None

\* <f64 as FromStr>::from_str(s).ok()
f64_from_str(s) ==
    IF s = <<>> THEN None
    ELSE LET neg == s[1] = "-"
             t == IF s[1] \in Signs THEN Tail(s) ELSE s
         IN IF t = <<>> THEN None
            ELSE First(<<parse_number(neg, t), parse_inf_nan(neg, t)>>)

parse_float(s) ==
    IF FLOAT_NUM_DEC(s) = None THEN None ELSE f64_from_str(FLOAT_NUM_DEC(s)[1])

(***************************************************************************)
(* Booleans.                                                               *)
(***************************************************************************)
\* BOOL (of bool.rs) = ^([tT]|[fF]|true|false|TRUE|FALSE)$ ; group 1 is the whole text.
BOOL(s) ==
    IF s \in { <<"t">>, <<"T">>, <<"f">>, <<"F">>,
               <<"t", "r", "u", "e">>, <<"f", "a", "l", "s", "e">>,
               <<"T", "R", "U", "E">>, <<"F", "A", "L", "S", "E">> }
    THEN Some(s) ELSE None

\* A boolean detector that compares the spellings without case.
parse_bool_any_case(s) ==
    IF [i \in 1..Len(s) |-> Lower(s[i])] \in {<<"t">>, <<"t", "r", "u", "e">>} THEN Some(TRUE)
    ELSE IF [i \in 1..Len(s) |-> Lower(s[i])] \in {<<"f">>, <<"f", "a", "l", "s", "e">>}
    THEN Some(FALSE)
    ELSE None

parse_bool(s) ==
    IF BOOL(s) = None THEN None
    ELSE LET group == BOOL(s)[1]
         IN IF group \in {<<"t">>, <<"T">>, <<"t", "r", "u", "e">>, <<"T", "R", "U", "E">>}
            THEN Some(TRUE)
            ELSE IF group \in {<<"f">>, <<"F">>, <<"f", "a", "l", "s", "e">>,
                               <<"F", "A", "L", "S", "E">>}
            THEN Some(FALSE)
            ELSE None

(***************************************************************************)
(* Addresses: the parser behind <IpAddr as FromStr> and <SocketAddr as     *)
(* FromStr>.  A reader takes the text and a position and returns None or   *)
(* Some([pos |-> the position after what it read, val |-> what it read]);  *)
(* a failed reader leaves the position where it was (read_atomically).     *)
(***************************************************************************)
Read(pos, v) == Some([pos |-> pos, val |-> v])

\* The end of the run of digits of the radix that starts at from: the first
\* position from there on that holds no digit.
RunEnd(s, from, radix) ==
    CHOOSE end \in from..(Len(s) + 1) :
        /\ \A i \in from..(end - 1) : to_digit(s[i], radix) # None
        /\ end <= Len(s) => to_digit(s[end], radix) = None

\* Whether a natural number (in limbs) fits an unsigned type of 8, 16 or 32 bits.
FitsUnsigned(m, bits) ==
    CASE bits = 8 -> m = <<>> \/ (Len(m) = 1 /\ m[1] < 256)
      [] bits = 16 -> Len(m) <= 1
      [] OTHER -> Len(m) <= 2

RECURSIVE NumberValue(_, _, _, _, _, _)
\* result = result * radix + digit over s[from..to]; None once it leaves the type.
NumberValue(s, from, to, radix, bits, m) ==
    IF from > to THEN Some(m)
    ELSE IF ~FitsUnsigned(LimbMulAdd(m, radix, DigitValue(s[from])), bits) THEN None
    ELSE NumberValue(s, from + 1, to, radix, bits, LimbMulAdd(m, radix, DigitValue(s[from])))

\* The number read, as a reader's result: a u8 or u16 is at most one limb.
number_read(end, value) ==
    IF value = None THEN None ELSE Read(end, IF value[1] = <<>> THEN 0 ELSE value[1][1])

\* read_number on the run of digits s[pos..end-1]: at least one digit; with
\* max_digits (0: no limit) no more digits than that; without
\* allow_zero_prefix no leading zero before another digit; the value must fit.
number_of_run(s, pos, end, radix, max_digits, allow_zero_prefix, bits) ==
    IF end = pos THEN None
    ELSE IF max_digits > 0 /\ end - pos > max_digits THEN None
    ELSE IF ~allow_zero_prefix /\ s[pos] = "0" /\ end - pos > 1 THEN None
    ELSE number_read(end, NumberValue(s, pos, end - 1, radix, bits, <<>>))

\* Parser::read_number
read_number(s, pos, radix, max_digits, allow_zero_prefix, bits) ==
    number_of_run(s, pos, RunEnd(s, pos, radix), radix, max_digits, allow_zero_prefix, bits)

\* Parser::read_given_char
read_given_char(s, pos, c) ==
    IF pos <= Len(s) /\ s[pos] = c THEN Read(pos + 1, c) ELSE None

\* Parser::read_separator: the position after the separator that precedes
\* every group but the first, or None.
read_separator(s, pos, sep, index) ==
    IF index = 0 THEN Some(pos)
    ELSE IF pos <= Len(s) /\ s[pos] = sep THEN Some(pos + 1)
    ELSE None

RECURSIVE ipv4_groups(_, _, _, _)
\* The loop of read_ipv4_addr after octet i was read (or not).
ipv4_next(s, i, octets, n) ==
    IF n = None THEN None ELSE ipv4_groups(s, n[1].pos, i + 1, Append(octets, n[1].val))

\* Octet i behind its separator: up to three decimal digits, no leading zero.
ipv4_group(s, i, octets, at) ==
    IF at = None THEN None ELSE ipv4_next(s, i, octets, read_number(s, at[1], 10, 3, FALSE, 8))

ipv4_groups(s, pos, i, octets) ==
    IF i = 4 THEN Read(pos, octets)
    ELSE ipv4_group(s, i, octets, read_separator(s, pos, ".", i))

\* Parser::read_ipv4_addr: four decimal octets separated by ".".
read_ipv4_addr(s, pos) == ipv4_groups(s, pos, 0, <<>>)

\* What read_groups returns: the number of groups read, whether they ended
\* with an embedded IPv4 address, the position reached and the groups.
Groups(n, ipv4, pos, groups) == [n |-> n, ipv4 |-> ipv4, pos |-> pos, groups |-> groups]

RECURSIVE read_groups(_, _, _, _, _)
\* Group i of read_groups once the embedded IPv4 address (v4) and the
\* hexadecimal group (g) were tried behind the separator.
groups_next(s, pos, i, limit, groups, v4, g) ==
    IF v4 # None
    THEN Groups(i + 2, TRUE, v4[1].pos,
                groups \o <<v4[1].val[1] * 256 + v4[1].val[2], v4[1].val[3] * 256 + v4[1].val[4]>>)
    ELSE IF g = None THEN Groups(i, FALSE, pos, groups)
    ELSE read_groups(s, g[1].pos, i + 1, limit, Append(groups, g[1].val))

\* Group i of read_groups behind its separator: an IPv4 address if two groups
\* are left, else up to four hexadecimal digits.
groups_group(s, pos, i, limit, groups, at) ==
    IF at = None THEN Groups(i, FALSE, pos, groups)
    ELSE groups_next(s, pos, i, limit, groups,
                     IF i < limit - 1 THEN read_ipv4_addr(s, at[1]) ELSE None,
                     read_number(s, at[1], 16, 4, TRUE, 16))

\* read_groups of read_ipv6_addr, from group i with the groups read so far.
read_groups(s, pos, i, limit, groups) ==
    IF i >= limit THEN Groups(i, FALSE, pos, groups)
    ELSE groups_group(s, pos, i, limit, groups, read_separator(s, pos, ":", i))

Zeros(n) == [i \in 1..n |-> 0]

\* The end of read_ipv6_addr: the tail's groups fill the address from the right.
ipv6_joined(head, tail) ==
    Read(tail.pos, head.groups \o Zeros(8 - head.n - tail.n) \o tail.groups)

\* read_ipv6_addr after the head: all eight groups, or "::" and a tail.
ipv6_after_head(s, head) ==
    IF head.n = 8 THEN Read(head.pos, head.groups)
    ELSE IF head.ipv4 THEN None
    ELSE IF read_given_char(s, head.pos, ":") = None THEN None
    ELSE IF read_given_char(s, head.pos + 1, ":") = None THEN None
    ELSE ipv6_joined(head, read_groups(s, head.pos + 2, 0, 7 - head.n, <<>>))

\* Parser::read_ipv6_addr: eight groups, or a head and a tail around "::".
read_ipv6_addr(s, pos) == ipv6_after_head(s, read_groups(s, pos, 0, 8, <<>>))

\* Option<[pos, val]>::map on the value read.
Tagged(result, v6) ==
    IF result = None THEN None ELSE Read(result[1].pos, [v6 |-> v6, groups |-> result[1].val])

\* Parser::read_ip_addr: an IPv4 address, or else an IPv6 address.
read_ip_addr(s, pos) ==
    First(<<Tagged(read_ipv4_addr(s, pos), FALSE), Tagged(read_ipv6_addr(s, pos), TRUE)>>)

\* Parser::read_port: ":" and a u16.
read_port(s, pos) ==
    IF pos <= Len(s) /\ s[pos] = ":" THEN read_number(s, pos + 1, 10, 0, TRUE, 16) ELSE None

\* The scope read on the run of digits s[pos+1..end-1]: a u32, kept in limbs.
scope_of_run(end, value) == IF value = None THEN None ELSE Read(end, value[1])

scope_digits(s, pos, end) ==
    IF end = pos + 1 THEN None
    ELSE scope_of_run(end, NumberValue(s, pos + 1, end - 1, 10, 32, <<>>))

\* Parser::read_scope_id: "%" and a u32.
read_scope_id(s, pos) ==
    IF pos <= Len(s) /\ s[pos] = "%" THEN scope_digits(s, pos, RunEnd(s, pos + 1, 10)) ELSE None

SocketAddress(ip, scope, port) == [ip |-> ip, scope |-> scope, port |-> port]

\* The port that ends a socket address.
socket_port(ip, scope, port) ==
    IF port = None THEN None ELSE Read(port[1].pos, SocketAddress(ip, scope, port[1].val))

socket_v4_port(s, ip) ==
    IF ip = None THEN None ELSE socket_port(ip[1].val, <<>>, read_port(s, ip[1].pos))

\* Parser::read_socket_addr_v4: an IPv4 address and a port.
read_socket_addr_v4(s, pos) == socket_v4_port(s, Tagged(read_ipv4_addr(s, pos), FALSE))

\* "]" and the port behind the address and its scope.
socket_v6_close(s, ip, scope, at) ==
    IF at <= Len(s) /\ s[at] = "]" THEN socket_port(ip, scope, read_port(s, at + 1)) ELSE None

\* read_scope_id().unwrap_or(0)
socket_v6_scope(s, ip, scope) ==
    IF scope = None THEN socket_v6_close(s, ip[1].val, <<>>, ip[1].pos)
    ELSE socket_v6_close(s, ip[1].val, scope[1].val, scope[1].pos)

socket_v6_ip(s, ip) ==
    IF ip = None THEN None ELSE socket_v6_scope(s, ip, read_scope_id(s, ip[1].pos))

\* Parser::read_socket_addr_v6: "[", an IPv6 address, an optional scope, "]"
\* and a port.
read_socket_addr_v6(s, pos) ==
    IF pos <= Len(s) /\ s[pos] = "[" THEN socket_v6_ip(s, Tagged(read_ipv6_addr(s, pos + 1), TRUE))
    ELSE None

\* Parser::parse_with: the reader must succeed and consume the whole text.
parse_with(s, result) ==
    IF result # None /\ result[1].pos = Len(s) + 1 THEN Some(result[1].val) ELSE None

\* <SocketAddr as FromStr>::from_str(arg).ok()
parse_socket(s) ==
    parse_with(s, First(<<read_socket_addr_v4(s, 1), read_socket_addr_v6(s, 1)>>))

\* <IpAddr as FromStr>::from_str(arg).ok()
parse_ip(s) == parse_with(s, read_ip_addr(s, 1))

(***************************************************************************)
(* Value.                                                                  *)
(***************************************************************************)
Value_String(s) == [tag |-> "String", raw |-> s]

Value_Bool(b, s) == [tag |-> "Bool", bool |-> b, raw |-> s]

Value_Int(i, s) == [tag |-> "Int", int |-> i, raw |-> s]

Value_Float(f, s) == [tag |-> "Float", float |-> f, raw |-> s]

Value_SocketAddr(a, s) == [tag |-> "SocketAddr", socket |-> a, raw |-> s]

Value_IpAddr(a, s) == [tag |-> "IpAddr", ip |-> a, raw |-> s]

Value_Array(items, s) == [tag |-> "Array", items |-> items, raw |-> s]

\* Self::Variant(val, arg.clone()) for the variant a detector stands for.
Variant(tag, x, s) ==
    CASE tag = "Int" -> Value_Int(x, s)
      [] tag = "Float" -> Value_Float(x, s)
      [] tag = "Bool" -> Value_Bool(x, s)
      [] tag = "SocketAddr" -> Value_SocketAddr(x, s)
      [] OTHER -> Value_IpAddr(x, s)

\* parse_x(&arg).map(|val| Self::Variant(val, arg.clone()))
Map(option, tag, s) == IF option = None THEN None ELSE Some(Variant(tag, option[1], s))

\* char::is_whitespace, which str::trim strips.
WhiteSpace == {" ", "\t", "\n", "\r"}

RECURSIVE trim_start(_)
trim_start(s) == IF s # <<>> /\ Head(s) \in WhiteSpace THEN trim_start(Tail(s)) ELSE s

RECURSIVE trim_end(_)
trim_end(s) ==
    IF s # <<>> /\ s[Len(s)] \in WhiteSpace THEN trim_end(SubSeq(s, 1, Len(s) - 1)) ELSE s

\* str::trim
trim(s) == trim_end(trim_start(s))

\* str::contains(':')
contains(s, c) == \E i \in 1..Len(s) : s[i] = c

\* A split at the first occurrence of c only (str::splitn(2, c)).
split_once(s, from, c) ==
    IF \E i \in from..Len(s) : s[i] = c
    THEN LET at == CHOOSE i \in from..Len(s) : s[i] = c /\ \A j \in from..(i - 1) : s[j] # c
         IN <<SubSeq(s, from, at - 1), SubSeq(s, at + 1, Len(s))>>
    ELSE <<SubSeq(s, from, Len(s))>>

RECURSIVE split_from(_, _, _)
\* str::split(c) on s[from..]: the pieces between the occurrences of c.
split_from(s, from, c) ==
    IF \E i \in from..Len(s) : s[i] = c
    THEN LET at == CHOOSE i \in from..Len(s) : s[i] = c /\ \A j \in from..(i - 1) : s[j] # c
         IN <<SubSeq(s, from, at - 1)>> \o split_from(s, at + 1, c)
    ELSE <<SubSeq(s, from, Len(s))>>

\* Iterator::filter
RECURSIVE NonEmpty(_)
NonEmpty(items) ==
    IF items = <<>> THEN <<>>
    ELSE IF Head(items) = <<>> THEN NonEmpty(Tail(items))
    ELSE <<Head(items)>> \o NonEmpty(Tail(items))

\* split(':').map(trim).filter(!is_empty) of Value::split
segments(s) == NonEmpty([i \in 1..Len(split_from(s, 1, ":")) |-> trim(split_from(s, 1, ":")[i])])

RECURSIVE Value_new(_)
RECURSIVE Value_split(_)

\* A split without the arm for a single segment: one segment makes an Array.
Value_split_no_collapse(arg) ==
    IF ~contains(arg, ":") THEN None
    ELSE IF segments(arg) = <<>> THEN None
    ELSE Some(Value_Array([i \in 1..Len(segments(arg)) |-> Value_new(segments(arg)[i])], arg))

\* Value::split
Value_split(arg) ==
    IF ~contains(arg, ":") THEN None
    ELSE LET collection == [i \in 1..Len(segments(arg)) |-> Value_new(segments(arg)[i])]
         IN CASE Len(collection) = 0 -> None
              [] Len(collection) = 1 -> Some(collection[1])
              [] OTHER -> Some(Value_Array(collection, arg))

\* The cascade with the float detector ahead of the integer detector.
Value_new_float_first(arg) ==
    LET found == First(<<Map(parse_float(arg), "Float", arg),
                         Map(parse_int(arg), "Int", arg),
                         Map(parse_bool(arg), "Bool", arg),
                         Map(parse_socket(arg), "SocketAddr", arg),
                         Map(parse_ip(arg), "IpAddr", arg),
                         Value_split(arg)>>)
    IN IF found = None THEN Value_String(arg) ELSE found[1]

\* The cascade with the delimiter split ahead of the address detectors.
Value_new_split_first(arg) ==
    LET found == First(<<Map(parse_int(arg), "Int", arg),
                         Map(parse_float(arg), "Float", arg),
                         Map(parse_bool(arg), "Bool", arg),
                         Value_split(arg),
                         Map(parse_socket(arg), "SocketAddr", arg),
                         Map(parse_ip(arg), "IpAddr", arg)>>)
    IN IF found = None THEN Value_String(arg) ELSE found[1]

\* Value::new
Value_new(arg) ==
    LET found == First(<<Map(parse_int(arg), "Int", arg),
                         Map(parse_float(arg), "Float", arg),
                         Map(parse_bool(arg), "Bool", arg),
                         Map(parse_socket(arg), "SocketAddr", arg),
                         Map(parse_ip(arg), "IpAddr", arg),
                         Value_split(arg)>>)
    IN IF found = None THEN Value_String(arg) ELSE found[1]

RECURSIVE Joined(_)
\* The raw texts of the items with ":" between them.
Joined(items) ==
    IF Len(items) = 1 THEN items[1].raw
    ELSE items[1].raw \o <<":">> \o Joined(Tail(items))

\* An as_str that rebuilds an Array's text from its items.
as_str_joined(v) == IF v.tag = "Array" THEN Some(Joined(v.items)) ELSE Some(v.raw)

\* Value::as_str
as_str(v) == Some(v.raw)

\* Value::as_bool
as_bool(v) == IF v.tag = "Bool" THEN Some(v.bool) ELSE None

\* Value::as_int
as_int(v) == IF v.tag = "Int" THEN Some(v.int) ELSE None

\* Value::as_float
as_float(v) == IF v.tag = "Float" THEN Some(v.float) ELSE None

\* Value::as_socket
as_socket(v) == IF v.tag = "SocketAddr" THEN Some(v.socket) ELSE None

\* Value::as_ipv4
as_ipv4(v) == IF v.tag = "IpAddr" /\ ~v.ip.v6 THEN Some(v.ip.groups) ELSE None

\* Value::as_ipv6
as_ipv6(v) == IF v.tag = "IpAddr" /\ v.ip.v6 THEN Some(v.ip.groups) ELSE None

\* f64's PartialEq: a NaN equals nothing, the two zeros are equal.
f64_eq(a, b) ==
    /\ a.class # "nan"
    /\ b.class # "nan"
    /\ \/ a.class = "zero" /\ b.class = "zero"
       \/ a = b

RECURSIVE Value_eq(_, _)
\* #[derive(PartialEq)] of Value: the same variant and equal fields.
Value_eq(a, b) ==
    /\ a.tag = b.tag
    /\ a.raw = b.raw
    /\ CASE a.tag = "Float" -> f64_eq(a.float, b.float)
         [] a.tag = "Array" ->
                /\ Len(a.items) = Len(b.items)
                /\ \A i \in 1..Len(a.items) : Value_eq(a.items[i], b.items[i])
         [] OTHER -> a = b

(***************************************************************************)
(* The inputs: every text of at most MaxLen characters over Alphabet, the  *)
(* literals of Corpus and every casing of the boolean words.               *)
(***************************************************************************)
MaxLen == 3

Alphabet == {"0", "1", ":", " ", ".", "x", "e", "-", "t", "f"}

ShortTexts == UNION {[1..n -> Alphabet] : n \in 0..MaxLen}

Corpus ==
    {
      \* the spec's priority examples
      <<"1", "0">>,
      <<"0", "x", "1", "F">>,
      <<"0", "o", "1", "7">>,
      <<"0", "b", "1", "0", "1">>,
      <<"3", ".", "1", "4">>,
      <<"1", "2", "7", ".", "0", ".", "0", ".", "1">>,
      <<"1", "2", "7", ".", "0", ".", "0", ".", "1", ":", "8", "0", "8", "0">>,
      <<"a", ":", "b", ":", "c">>,
      <<"l", "o", "n", "e", "l", "y", ":">>,
      \* literals around the i64 range
      <<"9", "2", "2", "3", "3", "7", "2", "0", "3", "6", "8", "5", "4", "7", "7", "5", "8", "0", "7">>,
      <<"9", "2", "2", "3", "3", "7", "2", "0", "3", "6", "8", "5", "4", "7", "7", "5", "8", "0", "8">>,
      <<"-", "9", "2", "2", "3", "3", "7", "2", "0", "3", "6", "8", "5", "4", "7", "7", "5", "8", "0", "8">>,
      <<"-", "9", "2", "2", "3", "3", "7", "2", "0", "3", "6", "8", "5", "4", "7", "7", "5", "8", "0", "9">>,
      <<"9", "9", "9", "9", "9", "9", "9", "9", "9", "9", "9", "9", "9", "9", "9", "9", "9", "9", "9">>,
      <<"9", "9", "9", "9", "9", "9", "9", "9", "9", "9", "9", "9", "9", "9", "9", "9", "9", "9", "9", "9">>,
      <<"0", "x", "7", "F", "F", "F", "F", "F", "F", "F", "F", "F", "F", "F", "F", "F", "F", "F">>,
      <<"0", "x", "8", "0", "0", "0", "0", "0", "0", "0", "0", "0", "0", "0", "0", "0", "0", "0">>,
      <<"0", "x", "F", "F", "F", "F", "F", "F", "F", "F", "F", "F", "F", "F", "F", "F", "F", "F">>,
      <<"0", "o", "7", "7", "7", "7", "7", "7", "7", "7", "7", "7", "7", "7", "7", "7", "7", "7", "7", "7", "7", "7", "7">>,
      <<"0", "o", "1", "0", "0", "0", "0", "0", "0", "0", "0", "0", "0", "0", "0", "0", "0", "0", "0", "0", "0", "0", "0", "0">>,
      <<"0", "b", "1", "1", "1", "1", "1", "1", "1", "1", "1", "1", "1", "1", "1", "1", "1", "1", "1", "1", "1", "1", "1", "1", "1", "1", "1", "1", "1", "1", "1", "1", "1", "1", "1", "1", "1", "1", "1", "1", "1", "1", "1", "1", "1", "1", "1", "1", "1", "1", "1", "1", "1", "1", "1", "1", "1", "1", "1", "1", "1", "1", "1", "1", "1">>,
      <<"0", "b", "1", "1", "1", "1", "1", "1", "1", "1", "1", "1", "1", "1", "1", "1", "1", "1", "1", "1", "1", "1", "1", "1", "1", "1", "1", "1", "1", "1", "1", "1", "1", "1", "1", "1", "1", "1", "1", "1", "1", "1", "1", "1", "1", "1", "1", "1", "1", "1", "1", "1", "1", "1", "1", "1", "1", "1", "1", "1", "1", "1", "1", "1", "1", "1">>,
      \* signs, the stray | of DEC, floats and the special tokens
      <<"+", "1", "0">>,
      <<"-", "1", "0">>,
      <<"|", "1", "0">>,
      <<"2", ".", "5", "E", "1", "0">>,
      <<"-", "2", ".", "5", "e", "-", "1", "0">>,
      <<".", "5">>,
      <<"0", ".", "5">>,
      <<"1", "e", "9", "9", "9">>,
      <<"i", "n", "f">>,
      <<"-", "i", "n", "f">>,
      <<"N", "a", "n">>,
      <<"-", "N", "a", "n">>,
      <<"N", "a", "N">>,
      <<"N", "a", "n", ":", "1">>,
      \* addresses
      <<"[", ":", ":", "1", "]", ":", "8", "0">>,
      <<"[", ":", ":", "1", "%", "3", "]", ":", "8", "0">>,
      <<":", ":", "f", "f", "f", "f", ":", "1", ".", "2", ".", "3", ".", "4">>,
      <<"1", ":", "2", ":", "3", ":", "4", ":", "5", ":", "6", ":", "7", ":", "8">>,
      <<"1", ".", "1", ".", "1", ".", "1", ":", "8", "0", ":", "x">>,
      <<"0", "1", ".", "1", ".", "1", ".", "1">>,
      <<"2", "5", "6", ".", "1", ".", "1", ".", "1">>,
      \* delimiters and white space
      <<" ", "a", " ", ":", " ", "b", " ">>,
      <<"a", ":", "b", ":", "c", ":", "d">>,
      <<"1", ":", "t", ":", "0", "x", "1", "F">>,
      <<" ", "l", "o", "n", "e", "l", "y", " ", ":", " ">>,
      <<":", " ", ":", " ", ":">>
    }

Casings ==
    {<<a>> : a \in {"t", "T", "f", "F"}}
    \cup {<<a, b, c, d>> : a \in {"t", "T"}, b \in {"r", "R"}, c \in {"u", "U"}, d \in {"e", "E"}}
    \cup {<<a, b, c, d, e>> : a \in {"f", "F"}, b \in {"a", "A"}, c \in {"l", "L"},
                              d \in {"s", "S"}, e \in {"e", "E"}}

Inputs == ShortTexts \cup Corpus \cup Casings

(***************************************************************************)
(* The process environment and the Envir snapshot.                         *)
(***************************************************************************)
PORT == <<"P", "O", "R", "T">>

Keys == {PORT, <<"p", "o", "r", "t">>}

\* The texts a variable is set to.
Texts(k) ==
    IF k = PORT THEN {<<"8", "0">>, <<"t">>, <<"1", ".", "5">>}
    ELSE {<<":", ":", "1">>, <<"1", ".", "1", ".", "1", ".", "1">>}

\* The names looked up: the variables and a name that is never set.
Names == Keys \cup {<<"P", "o", "r", "t">>}

MaxHandles == 2

NumReaders == 2

Readers == 1..NumReaders

\* std::env::vars(): the (key, value) pairs of the variables that are set.
env_vars(env) == {<<k, env[k][1]>> : k \in {x \in DOMAIN env : env[x] # None}}

\* .map(|(key, value)| (key, Value::new(value))).collect::<HashMap<_, _>>()
collect(pairs) == [k \in {p[1] : p \in pairs} |-> Value_new((CHOOSE p \in pairs : p[1] = k)[2])]

\* A lookup that compares the names without case.
HashMap_get_any_case(map, k) ==
    IF \E n \in DOMAIN map : LowerAll(n) = LowerAll(k)
    THEN Some(map[CHOOSE n \in DOMAIN map : LowerAll(n) = LowerAll(k)])
    ELSE None

\* HashMap::get
HashMap_get(map, k) == IF k \in DOMAIN map THEN Some(map[k]) ELSE None

\* A lookup that reads the variable from the process environment as it is now.
Envir_get_resync(data, k) ==
    IF k \in DOMAIN environ /\ environ[k] # None THEN Some(Value_new(environ[k][1])) ELSE None

\* Envir::get
Envir_get(data, k) == HashMap_get(data, k)

\* Envir::get_bool: self.get(k).into_iter().flat_map(|value| value.as_bool()).next()
Envir_get_bool(data, k) ==
    IF Envir_get(data, k) = None THEN None ELSE as_bool(Envir_get(data, k)[1])

\* Envir::get_int: self.get(k).into_iter().flat_map(|value| value.as_int()).next()
Envir_get_int(data, k) ==
    IF Envir_get(data, k) = None THEN None ELSE as_int(Envir_get(data, k)[1])

\* Envir::get_float: self.get(k).into_iter().flat_map(|value| value.as_float()).next()
Envir_get_float(data, k) ==
    IF Envir_get(data, k) = None THEN None ELSE as_float(Envir_get(data, k)[1])

\* Envir::get_ipv4: self.get(k).into_iter().flat_map(|value| value.as_ipv4()).next()
Envir_get_ipv4(data, k) ==
    IF Envir_get(data, k) = None THEN None ELSE as_ipv4(Envir_get(data, k)[1])

\* Envir::get_ipv6: self.get(k).into_iter().flat_map(|value| value.as_ipv6()).next()
Envir_get_ipv6(data, k) ==
    IF Envir_get(data, k) = None THEN None ELSE as_ipv6(Envir_get(data, k)[1])

\* Envir::get_str: self.get(k).into_iter().flat_map(|value| value.as_str()).next()
Envir_get_str(data, k) ==
    IF Envir_get(data, k) = None THEN None ELSE as_str(Envir_get(data, k)[1])

(***************************************************************************)
(* One value: Value::new on an input, as_str on the result, and Value::new *)
(* on the text as_str gave back.                                           *)
(***************************************************************************)
NoEnviron == [k \in Keys |-> None]

Init ==
    /\ pc = "start"
    /\ input \in Inputs
    /\ val = None
    /\ text = None
    /\ again = None
    /\ environ = NoEnviron
    /\ envir = None
    /\ built = NoEnviron
    /\ handles = 0
    /\ reads = None

Construct ==
    /\ pc = "start"
    /\ val' = Some(Value_new(input))
    /\ pc' = "built"
    /\ UNCHANGED <<input, text, again, environ, envir, built, handles, reads>>

AsStr ==
    /\ pc = "built"
    /\ text' = as_str(val[1])
    /\ pc' = "read"
    /\ UNCHANGED <<input, val, again, environ, envir, built, handles, reads>>

Reconstruct ==
    /\ pc = "read"
    /\ again' = Some(Value_new(text[1]))
    /\ pc' = "again"
    /\ UNCHANGED <<input, val, text, environ, envir, built, handles, reads>>

Next == Construct \/ AsStr \/ Reconstruct

Spec == Init /\ [][Next]_vars

(***************************************************************************)
(* The environment: the process sets and removes variables at any time,    *)
(* Envir::default() reads them once, the Envir is cloned, and readers look *)
(* names up through any clone.                                             *)
(***************************************************************************)
InitEnvir ==
    /\ pc = "env"
    /\ input = <<>>
    /\ val = None
    /\ text = None
    /\ again = None
    /\ environ = [NoEnviron EXCEPT ![PORT] = Some(<<"8", "0">>)]
    /\ envir = None
    /\ built = NoEnviron
    /\ handles = 0
    /\ reads = None

\* std::env::set_var
set_var ==
    \E k \in Keys : \E v \in Texts(k) :
        /\ environ[k] # Some(v)
        /\ environ' = [environ EXCEPT ![k] = Some(v)]
        /\ UNCHANGED <<pc, input, val, text, again, envir, built, handles, reads>>

\* std::env::remove_var
remove_var ==
    \E k \in Keys :
        /\ environ[k] # None
        /\ environ' = [environ EXCEPT ![k] = None]
        /\ UNCHANGED <<pc, input, val, text, again, envir, built, handles, reads>>

\* Envir::default
Envir_default ==
    /\ envir = None
    /\ envir' = Some(collect(env_vars(environ)))
    /\ built' = environ
    /\ handles' = 1
    /\ UNCHANGED <<pc, input, val, text, again, environ, reads>>

\* #[derive(Clone)] of Envir: another handle on the same Arc.
Envir_clone ==
    /\ envir # None
    /\ handles < MaxHandles
    /\ handles' = handles + 1
    /\ UNCHANGED <<pc, input, val, text, again, environ, envir, built, reads>>

\* Reader r has called lookup op for name k through handle h and got an answer.
Looked(r, h, op, k, got) ==
    /\ reads' = Some([reader |-> r, handle |-> h, op |-> op, key |-> k, got |-> got])
    /\ UNCHANGED <<pc, input, val, text, again, environ, envir, built, handles>>

get ==
    \E r \in Readers : \E h \in 1..handles : \E k \in Names :
        Looked(r, h, "get", k, Envir_get(envir[1], k))

get_bool ==
    \E r \in Readers : \E h \in 1..handles : \E k \in Names :
        Looked(r, h, "get_bool", k, Envir_get_bool(envir[1], k))

get_int ==
    \E r \in Readers : \E h \in 1..handles : \E k \in Names :
        Looked(r, h, "get_int", k, Envir_get_int(envir[1], k))

get_float ==
    \E r \in Readers : \E h \in 1..handles : \E k \in Names :
        Looked(r, h, "get_float", k, Envir_get_float(envir[1], k))

get_ipv4 ==
    \E r \in Readers : \E h \in 1..handles : \E k \in Names :
        Looked(r, h, "get_ipv4", k, Envir_get_ipv4(envir[1], k))

get_ipv6 ==
    \E r \in Readers : \E h \in 1..handles : \E k \in Names :
        Looked(r, h, "get_ipv6", k, Envir_get_ipv6(envir[1], k))

get_str ==
    \E r \in Readers : \E h \in 1..handles : \E k \in Names :
        Looked(r, h, "get_str", k, Envir_get_str(envir[1], k))

NextEnvir ==
    \/ set_var
    \/ remove_var
    \/ Envir_default
    \/ Envir_clone
    \/ get
    \/ get_bool
    \/ get_int
    \/ get_float
    \/ get_ipv4
    \/ get_ipv6
    \/ get_str

SpecEnvir == InitEnvir /\ [][NextEnvir]_vars

(***************************************************************************)
(* The claims.                                                             *)
(***************************************************************************)
\* The result the priority order integer, float, boolean, socket address, IP
\* address, delimiter split, string asks for.
Cascade(s) ==
    IF parse_int(s) # None THEN Value_Int(parse_int(s)[1], s)
    ELSE IF parse_float(s) # None THEN Value_Float(parse_float(s)[1], s)
    ELSE IF parse_bool(s) # None THEN Value_Bool(parse_bool(s)[1], s)
    ELSE IF parse_socket(s) # None THEN Value_SocketAddr(parse_socket(s)[1], s)
    ELSE IF parse_ip(s) # None THEN Value_IpAddr(parse_ip(s)[1], s)
    ELSE IF Value_split(s) # None THEN Value_split(s)[1]
    ELSE Value_String(s)

\* C1: Value::new returns exactly one Value for every input, and it is the
\* result of the first detector, in the order integer, float, boolean, socket
\* address, IP address, delimiter split, that matches and decodes; if none
\* does, it is String of the unchanged input.
C1_FirstDetectorWins ==
    pc # "start" =>
        /\ Len(val) = 1
        /\ val[1].tag \in {"String", "Bool", "Int", "Float", "SocketAddr", "IpAddr", "Array"}
        /\ val[1] = Cascade(input)

\* A text the float pattern matches and f64::from_str rejects falls through
\* to the string fallback.
C1_Witness ==
    /\ pc = "built"
    /\ FLOAT_NUM_DEC(input) # None
    /\ parse_float(input) = None
    /\ val[1] = Value_String(input)

\* C2: as_str on Value::new(s) returns Some of exactly s, for every s.
C2_AsStrReturnsInput == pc \in {"read", "again"} => text = Some(input)

\* Whether a value is, or holds as an item, a Float that is not a number.
IsNaN(v) == v.tag = "Float" /\ v.float.class = "nan"

HoldsNaN(v) == IsNaN(v) \/ (v.tag = "Array" /\ \E i \in 1..Len(v.items) : IsNaN(v.items[i]))

\* C3 as stated: Value::new on the raw text of v = Value::new(s) is equal to v.
C3_Idempotent == pc = "again" => Value_eq(again[1], val[1])

\* C3 as amended: Value::new on the raw text of v = Value::new(s) has the
\* variant, payload, raw text and items of v, and is equal to v under
\* PartialEq exactly when v holds no NaN float.
C3_IdempotentUpToNaN ==
    pc = "again" =>
        /\ again[1] = val[1]
        /\ Value_eq(again[1], val[1]) <=> ~HoldsNaN(val[1])

\* The raw text differs from the input (a single segment was kept) and the
\* value built from it is equal to the first.
C3_Witness ==
    /\ pc = "again"
    /\ text[1] # input
    /\ Value_eq(again[1], val[1])

\* C4: a valid socket address becomes SocketAddr with the whole input as raw
\* text, a valid bare IP address becomes IpAddr; neither is claimed by the
\* integer, float or boolean detector, and neither becomes an Array.
C4_AddressesBeforeSplit ==
    pc # "start" =>
        /\ parse_socket(input) # None => val[1] = Value_SocketAddr(parse_socket(input)[1], input)
        /\ parse_ip(input) # None => val[1] = Value_IpAddr(parse_ip(input)[1], input)
        /\ (parse_socket(input) # None \/ parse_ip(input) # None) =>
               /\ parse_int(input) = None
               /\ parse_float(input) = None
               /\ parse_bool(input) = None
               /\ val[1].tag # "Array"

\* A socket address, whose text holds the delimiter, was built as SocketAddr.
C4_Witness ==
    /\ pc = "built"
    /\ contains(input, ":")
    /\ parse_socket(input) # None
    /\ val[1].tag = "SocketAddr"

\* No detector ahead of the delimiter split takes the text.
NoEarlierDetector(s) ==
    /\ parse_int(s) = None
    /\ parse_float(s) = None
    /\ parse_bool(s) = None
    /\ parse_socket(s) = None
    /\ parse_ip(s) = None

AtLeastTwoItems(v) == v.tag = "Array" => Len(v.items) >= 2

\* C5: every Array has at least two items; an input with ":" that no earlier
\* detector takes becomes String of the input with no non-empty segment, the
\* one segment's own value with one, and with more the Array of the values of
\* the segments in order.
C5_SplitBySegments ==
    pc # "start" =>
        /\ AtLeastTwoItems(val[1])
        /\ val[1].tag = "Array" =>
               \A i \in 1..Len(val[1].items) : AtLeastTwoItems(val[1].items[i])
        /\ (contains(input, ":") /\ NoEarlierDetector(input)) =>
               CASE Len(segments(input)) = 0 -> val[1] = Value_String(input)
                 [] Len(segments(input)) = 1 -> val[1] = Value_new(segments(input)[1])
                 [] OTHER ->
                        val[1] = Value_Array([i \in 1..Len(segments(input)) |->
                                                  Value_new(segments(input)[i])], input)

\* An input with one non-empty segment became that segment's integer.
C5_Witness ==
    /\ pc = "built"
    /\ contains(input, ":")
    /\ NoEarlierDetector(input)
    /\ Len(segments(input)) = 1
    /\ val[1].tag = "Int"

\* An integer literal as C6 reads it: a decimal with an optional sign, or
\* 0x, 0o, 0b and digits of that base.  None, or its sign, radix and digits.
Literal(s) ==
    IF Len(s) >= 3 /\ s[1] = "0" /\ s[2] = "x" /\ AllIn(s, 3, Len(s), HexDigits)
    THEN Some([neg |-> FALSE, radix |-> 16, digits |-> SubSeq(s, 3, Len(s))])
    ELSE IF Len(s) >= 3 /\ s[1] = "0" /\ s[2] = "o" /\ AllIn(s, 3, Len(s), OctDigits)
    THEN Some([neg |-> FALSE, radix |-> 8, digits |-> SubSeq(s, 3, Len(s))])
    ELSE IF Len(s) >= 3 /\ s[1] = "0" /\ s[2] = "b" /\ AllIn(s, 3, Len(s), BinDigits)
    THEN Some([neg |-> FALSE, radix |-> 2, digits |-> SubSeq(s, 3, Len(s))])
    ELSE IF Len(s) >= 2 /\ s[1] \in Signs /\ AllIn(s, 2, Len(s), DecDigits)
    THEN Some([neg |-> s[1] = "-", radix |-> 10, digits |-> Tail(s)])
    ELSE IF Len(s) >= 1 /\ AllIn(s, 1, Len(s), DecDigits)
    THEN Some([neg |-> FALSE, radix |-> 10, digits |-> s])
    ELSE None

RECURSIVE Magnitude(_, _, _)
\* The number the digits spell in the radix, with no bound on its size.
Magnitude(digits, radix, m) ==
    IF digits = <<>> THEN m
    ELSE IF Len(digits) = 1 THEN LimbMulAdd(m, radix, DigitValue(digits[1]))
    ELSE LET two == LimbMulAdd(m, radix * radix,
                               DigitValue(digits[1]) * radix + DigitValue(digits[2]))
         IN IF two = <<>> THEN Magnitude(SubSeq(digits, 3, Len(digits)), radix, <<>>)
            ELSE Magnitude(SubSeq(digits, 3, Len(digits)), radix, two)

\* -2^63 <= value <= 2^63 - 1, for a value given by sign and magnitude.
InI64(neg, m) ==
    \/ Len(m) < 4
    \/ Len(m) = 4 /\ m[4] < 32768
    \/ neg /\ m = <<0, 0, 0, 32768>>

\* An Int holds the number its raw text spells, which is within the i64 range.
ExactInt(v) ==
    v.tag = "Int" =>
        /\ Literal(v.raw) # None
        /\ v.int.mag = Magnitude(Literal(v.raw)[1].digits, Literal(v.raw)[1].radix, <<>>)
        /\ v.int.neg = (Literal(v.raw)[1].neg /\ v.int.mag # <<>>)
        /\ InI64(v.int.neg, v.int.mag)

\* C6: an Int holds exactly the value of its literal, within the signed
\* 64-bit range; an integer literal whose value is outside that range becomes
\* Float or String, never Int.
C6_IntNeverWraps ==
    pc # "start" =>
        /\ ExactInt(val[1])
        /\ val[1].tag = "Array" =>
               \A i \in 1..Len(val[1].items) : ExactInt(val[1].items[i])
        /\ (/\ Literal(input) # None
            /\ ~InI64(Literal(input)[1].neg,
                      Magnitude(Literal(input)[1].digits, Literal(input)[1].radix, <<>>)))
           => val[1].tag \in {"Float", "String"}

\* A decimal the integer pattern matches and i64 cannot hold became a Float.
C6_Witness ==
    /\ pc = "built"
    /\ DEC(input) # None
    /\ parse_int(input) = None
    /\ val[1].tag = "Float"

TrueSpellings == {<<"t">>, <<"T">>, <<"t", "r", "u", "e">>, <<"T", "R", "U", "E">>}

FalseSpellings == {<<"f">>, <<"F">>, <<"f", "a", "l", "s", "e">>, <<"F", "A", "L", "S", "E">>}

\* C7: parse_bool is Some(true) exactly for t, T, true, TRUE, Some(false)
\* exactly for f, F, false, FALSE, and None otherwise; any other casing of
\* these words is built as String.
C7_EightSpellings ==
    /\ parse_bool(input) = (IF input \in TrueSpellings THEN Some(TRUE)
                            ELSE IF input \in FalseSpellings THEN Some(FALSE)
                            ELSE None)
    /\ (/\ pc # "start"
        /\ input \in Casings
        /\ input \notin TrueSpellings \cup FalseSpellings)
       => val[1] = Value_String(input)

\* "True" was built as String.
C7_Witness ==
    /\ pc = "built"
    /\ input = <<"T", "r", "u", "e">>
    /\ parse_bool(input) = None
    /\ val[1].tag = "String"

\* What a getter makes of the value it found.
Narrowed(op, v) ==
    CASE op = "get" -> Some(v)
      [] op = "get_bool" -> as_bool(v)
      [] op = "get_int" -> as_int(v)
      [] op = "get_float" -> as_float(v)
      [] op = "get_ipv4" -> as_ipv4(v)
      [] op = "get_ipv6" -> as_ipv6(v)
      [] OTHER -> as_str(v)

\* A lookup by one thread in a mapping.
SingleThreaded(op, map, k) ==
    IF HashMap_get(map, k) = None THEN None ELSE Narrowed(op, HashMap_get(map, k)[1])

\* C8: once Envir::default() has returned, the mapping is the one computed
\* from the environment as it was then, whatever is set or removed later, and
\* every lookup, by any reader through any clone, returns what a lookup by
\* one thread in that mapping returns.
C8_SnapshotIsFixed ==
    envir # None =>
        /\ envir[1] = collect(env_vars(built))
        /\ reads # None =>
               reads[1].got = SingleThreaded(reads[1].op, collect(env_vars(built)), reads[1].key)

\* The second reader looked a variable up through a clone after the process
\* had changed that variable.
C8_Witness ==
    /\ reads # None
    /\ reads[1].reader = 2
    /\ reads[1].handle = 2
    /\ reads[1].key \in Keys
    /\ environ[reads[1].key] # built[reads[1].key]

\* The variable was set, under exactly this name, when the snapshot was taken.
Present(k) == k \in Keys /\ built[k] # None

\* The variant a typed getter answers for.
Answers(op, v) ==
    CASE op = "get_bool" -> v.tag = "Bool"
      [] op = "get_int" -> v.tag = "Int"
      [] op = "get_float" -> v.tag = "Float"
      [] op = "get_ipv4" -> v.tag = "IpAddr" /\ ~v.ip.v6
      [] op = "get_ipv6" -> v.tag = "IpAddr" /\ v.ip.v6
      [] OTHER -> TRUE

\* C9: get returns Some(Value::new(text)) for a name the environment held
\* with that text and None for any other name; a typed getter returns None
\* for an absent name and for a value of another variant; get_str returns
\* Some for every present name.
C9_AbsenceNotDefault ==
    reads # None =>
        /\ ~Present(reads[1].key) => reads[1].got = None
        /\ (Present(reads[1].key) /\ reads[1].op = "get") =>
               reads[1].got = Some(Value_new(built[reads[1].key][1]))
        /\ (Present(reads[1].key) /\ reads[1].op # "get") =>
               (reads[1].got # None <=> Answers(reads[1].op, Value_new(built[reads[1].key][1])))

\* get_int found the variable and returned None because its value is no Int.
C9_Witness ==
    /\ reads # None
    /\ reads[1].op = "get_int"
    /\ Present(reads[1].key)
    /\ Value_new(built[reads[1].key][1]).tag = "Bool"
    /\ reads[1].got = None

\* C10 as stated: some input, the one at hand or another, makes Value::new
\* return an Array that holds an Array.
C10_SomeArrayNests ==
    \E s \in {input} \cup Inputs :
        /\ Value_new(s).tag = "Array"
        /\ \E i \in 1..Len(Value_new(s).items) : Value_new(s).items[i].tag = "Array"

\* C10 as amended: arrays never nest.  Value::split splits at every ":", so
\* no segment holds a delimiter, and every item of an Array is a String,
\* Bool, Int, Float or IpAddr whose raw text holds no ":".
C10_ArraysNeverNest ==
    (pc # "start" /\ val[1].tag = "Array") =>
        \A i \in 1..Len(val[1].items) :
            /\ val[1].items[i].tag \in {"String", "Bool", "Int", "Float", "IpAddr"}
            /\ ~contains(val[1].items[i].raw, ":")

\* An input with three delimiters became one flat Array of four items.
C10_Witness ==
    /\ pc = "built"
    /\ Len(split_from(input, 1, ":")) = 4
    /\ val[1].tag = "Array"
    /\ Len(val[1].items) = 4

====
